---- MODULE Spec2Model ----
(***************************************************************************)
(* Model of the automobile sales dashboard                                 *)
(* (src/DV0101EN-Final-Assign-Part-2-Questions.py).                        *)
(*                                                                         *)
(* The program is a table loaded once (data), a layout with two dropdowns  *)
(* and one output region, and two callbacks that the framework invokes     *)
(* when a dropdown value changes.  Component properties are modelled per   *)
(* browser session; the table is shared by all sessions.                   *)
(***************************************************************************)
EXTENDS Integers, Sequences, FiniteSets, TLC

VARIABLES
    data,                  \* the DataFrame read at line 11
    dropdown_statistics,   \* per session: value of "dropdown-statistics"
    select_year,           \* per session: value of "select-year"
    select_year_disabled,  \* per session: disabled of "select-year"
    output_container,      \* per session: children of "output-container"
    queue                  \* per session: callback invocations not yet run

vars == <<data, dropdown_statistics, select_year, select_year_disabled,
          output_container, queue>>

-----------------------------------------------------------------------------
(* Optional values: Python None is the empty tuple, a value v is <<v>>.    *)

None == <<>>

Some(v) == <<v>>

(* Numbers that pandas produces by sum()/mean() are kept as exact           *)
(* fractions in lowest terms.                                               *)

RECURSIVE Gcd(_, _)
Gcd(a, b) == IF b = 0 THEN a ELSE Gcd(b, a % b)

Frac(n, d) == LET g == Gcd(n, d) IN [num |-> n \div g, den |-> d \div g]

-----------------------------------------------------------------------------
(* Bounds of the model.                                                    *)

MaxRows == 3

MaxQueue == 2

-----------------------------------------------------------------------------
(* The layout's option lists.                                              *)

dropdown_options == {"Yearly Statistics", "Recession Period Statistics"}

year_list == 1980..2023

(* Vehicle types in the order pandas sorts them (lexicographic).           *)
VehicleTypes == <<"Executivecar", "Sports">>

(* Sample records of the CSV: two years, two months, both recession flags, *)
(* two vehicle types, two unemployment rates.                              *)
Rec(y, m, r, vt, sales, adv, unemp) ==
    [Year |-> y, Month |-> m, Recession |-> r, Vehicle_Type |-> vt,
     Automobile_Sales |-> sales, Advertising_Expenditure |-> adv,
     unemployment_rate |-> unemp]

Rows ==
    { Rec(1980, 2, 1, "Sports",       100, 10, 5),
      Rec(1980, 1, 1, "Sports",       300, 40, 5),
      Rec(1980, 1, 0, "Executivecar", 200, 20, 3),
      Rec(1982, 1, 1, "Executivecar", 400, 30, 5),
      Rec(1982, 2, 0, "Sports",       600, 50, 3) }

RECURSIVE SeqsUpTo(_, _)
SeqsUpTo(S, n) ==
    IF n = 0 THEN {<<>>}
    ELSE LET shorter == SeqsUpTo(S, n - 1)
         IN  shorter \cup {Append(d, r) : d \in shorter, r \in S}

Datasets == SeqsUpTo(Rows, MaxRows)

\* tables served to several sessions at once: a recession row of 1980
\* followed by a non-recession row of 1982
SharedDatasets ==
    {<<a, b>> : a \in {r \in Rows : r.Recession = 1 /\ r.Year = 1980},
                b \in {r \in Rows : r.Recession = 0 /\ r.Year = 1982}}

-----------------------------------------------------------------------------
(* pandas operations used by the callbacks.                                *)

\* df[df[col] == v]
Filter(df, col, v) == SelectSeq(df, LAMBDA r : r[col] = v)

\* order of two values of one column
ValueLess(col, a, b) ==
    IF col = "Vehicle_Type"
    THEN (CHOOSE i \in DOMAIN VehicleTypes : VehicleTypes[i] = a)
           < (CHOOSE i \in DOMAIN VehicleTypes : VehicleTypes[i] = b)
    ELSE a < b

\* the group key of a row: its values in the columns of by
KeyOf(r, by) == [i \in DOMAIN by |-> r[by[i]]]

\* lexicographic order of two group keys
KeyLess(by, k1, k2) ==
    \E i \in DOMAIN by :
        /\ ValueLess(by[i], k1[i], k2[i])
        /\ \A j \in 1..(i - 1) : k1[j] = k2[j]

\* the distinct group keys in ascending order (groupby sorts its keys)
SortedKeys(df, by) ==
    LET keys == {KeyOf(df[i], by) : i \in DOMAIN df}
    IN  [i \in 1..Cardinality(keys) |->
            CHOOSE k \in keys :
                Cardinality({j \in keys : KeyLess(by, j, k)}) = i - 1]

RECURSIVE ColumnSum(_, _)
ColumnSum(df, col) ==
    IF df = <<>> THEN 0 ELSE df[1][col] + ColumnSum(Tail(df), col)

\* Series.sum()
sum(df, col) == Frac(ColumnSum(df, col), 1)

\* Series.mean()
mean(df, col) == Frac(ColumnSum(df, col), Len(df))

\* df.groupby(by)[col].<how>().reset_index(): one row per group key
groupby(df, by, col, how) ==
    LET keys == SortedKeys(df, by)
        cols == {by[i] : i \in DOMAIN by} \cup {col}
    IN  [n \in DOMAIN keys |->
            LET grp == SelectSeq(df, LAMBDA r : KeyOf(r, by) = keys[n])
            IN  [c \in cols |->
                    IF c = col
                    THEN IF how = "mean" THEN mean(grp, col) ELSE sum(grp, col)
                    ELSE keys[n][CHOOSE i \in DOMAIN by : by[i] = c]]]

\* df.sort_values(col): rows in ascending order of col (stable)
sort_values(df, col) ==
    LET rank(i) == Cardinality({j \in DOMAIN df :
                        \/ ValueLess(col, df[j][col], df[i][col])
                        \/ (df[j][col] = df[i][col] /\ j < i)})
    IN  [n \in DOMAIN df |-> df[CHOOSE i \in DOMAIN df : rank(i) = n - 1]]

-----------------------------------------------------------------------------
(* Components the callbacks build.                                         *)

\* html.Div(<text>, style={"margin": 20}); year is the interpolated value
Div(text, year) ==
    [kind |-> "message", text |-> text, year |-> year, charts |-> <<>>]

\* dcc.Graph(figure=px.<kind>(df, x, y, color, title))
Graph(kind, df, x, y, color, title, year) ==
    [kind |-> kind, table |-> df, x |-> x, y |-> y, color |-> color,
     title |-> title, year |-> year]

\* two "chart-item" rows of two graphs each
ChartGrid(c1, c2, c3, c4) ==
    [kind |-> "charts", text |-> "", year |-> None,
     charts |-> << <<c1, c2>>, <<c3, c4>> >>]

\* the output region before any callback has filled it (line 55)
NoChildren == [kind |-> "empty", text |-> "", year |-> None, charts |-> <<>>]

\* Python truth value of the year argument: None and 0 are false
Falsy(v) == v = None \/ v = Some(0)

\* int(selected_year) of a numeric dropdown value
IntOf(v) == v[1]

-----------------------------------------------------------------------------
(* The callbacks.                                                          *)

\* variant: the test is on the other option, so None leaves the year enabled
update_input_container_OtherOption(selected_statistics) ==
    IF selected_statistics = Some("Recession Period Statistics") THEN TRUE ELSE FALSE

\* lines 61-66
update_input_container(selected_statistics) ==
    IF selected_statistics = Some("Yearly Statistics") THEN FALSE ELSE TRUE

\* variant: plot 4 groups the whole table instead of recession_data
RecessionBranch_Plot4AllRows(df) ==
    LET recession_data == Filter(df, "Recession", 1)
        yearly_rec == groupby(recession_data, <<"Year">>, "Automobile_Sales", "mean")
        average_sales == groupby(recession_data, <<"Vehicle_Type">>, "Automobile_Sales", "mean")
        exp_rec == groupby(recession_data, <<"Vehicle_Type">>, "Advertising_Expenditure", "sum")
        unemp_data == groupby(df, <<"unemployment_rate", "Vehicle_Type">>,
                              "Automobile_Sales", "mean")
    IN  ChartGrid(
            Graph("line", yearly_rec, "Year", "Automobile_Sales", "",
                  "Average Automobile Sales (Recession Years)", None),
            Graph("bar", average_sales, "Vehicle_Type", "Automobile_Sales", "",
                  "Average Sales by Vehicle Type (Recession)", None),
            Graph("pie", exp_rec, "Vehicle_Type", "Advertising_Expenditure", "",
                  "Advertising Expenditure Share (Recession)", None),
            Graph("bar", unemp_data, "unemployment_rate", "Automobile_Sales", "Vehicle_Type",
                  "Effect of Unemployment Rate on Vehicle Type and Sales (Recession)", None))

\* lines 77-126: the recession branch
RecessionBranch(df) ==
    LET recession_data == Filter(df, "Recession", 1)
        yearly_rec == groupby(recession_data, <<"Year">>, "Automobile_Sales", "mean")
        average_sales == groupby(recession_data, <<"Vehicle_Type">>, "Automobile_Sales", "mean")
        exp_rec == groupby(recession_data, <<"Vehicle_Type">>, "Advertising_Expenditure", "sum")
        unemp_data == groupby(recession_data, <<"unemployment_rate", "Vehicle_Type">>,
                              "Automobile_Sales", "mean")
    IN  ChartGrid(
            Graph("line", yearly_rec, "Year", "Automobile_Sales", "",
                  "Average Automobile Sales (Recession Years)", None),
            Graph("bar", average_sales, "Vehicle_Type", "Automobile_Sales", "",
                  "Average Sales by Vehicle Type (Recession)", None),
            Graph("pie", exp_rec, "Vehicle_Type", "Advertising_Expenditure", "",
                  "Advertising Expenditure Share (Recession)", None),
            Graph("bar", unemp_data, "unemployment_rate", "Automobile_Sales", "Vehicle_Type",
                  "Effect of Unemployment Rate on Vehicle Type and Sales (Recession)", None))

\* variant: plot 1 groups yearly_data instead of the whole table
YearlyCharts_Plot1OwnYear(df, yearly_data, year) ==
    LET yas == groupby(yearly_data, <<"Year">>, "Automobile_Sales", "mean")
        mas == sort_values(
                   groupby(yearly_data, <<"Month">>, "Automobile_Sales", "sum"),
                   "Month")
        avr_vdata == groupby(yearly_data, <<"Vehicle_Type">>, "Automobile_Sales", "mean")
        exp_data == groupby(yearly_data, <<"Vehicle_Type">>,
                            "Advertising_Expenditure", "sum")
    IN  ChartGrid(
            Graph("line", yas, "Year", "Automobile_Sales", "",
                  "Average Automobile Sales Over the Years", None),
            Graph("line", mas, "Month", "Automobile_Sales", "",
                  "Total Monthly Automobile Sales in {year}", Some(year)),
            Graph("bar", avr_vdata, "Vehicle_Type", "Automobile_Sales", "",
                  "Average Vehicles Sold by Type in {year}", Some(year)),
            Graph("pie", exp_data, "Vehicle_Type", "Advertising_Expenditure", "",
                  "Advertising Expenditure by Type in {year}", Some(year)))

\* lines 145-180: the four yearly charts
YearlyCharts(df, yearly_data, year) ==
    LET yas == groupby(df, <<"Year">>, "Automobile_Sales", "mean")
        mas == sort_values(
                   groupby(yearly_data, <<"Month">>, "Automobile_Sales", "sum"),
                   "Month")
        avr_vdata == groupby(yearly_data, <<"Vehicle_Type">>, "Automobile_Sales", "mean")
        exp_data == groupby(yearly_data, <<"Vehicle_Type">>,
                            "Advertising_Expenditure", "sum")
    IN  ChartGrid(
            Graph("line", yas, "Year", "Automobile_Sales", "",
                  "Average Automobile Sales Over the Years", None),
            Graph("line", mas, "Month", "Automobile_Sales", "",
                  "Total Monthly Automobile Sales in {year}", Some(year)),
            Graph("bar", avr_vdata, "Vehicle_Type", "Automobile_Sales", "",
                  "Average Vehicles Sold by Type in {year}", Some(year)),
            Graph("pie", exp_data, "Vehicle_Type", "Advertising_Expenditure", "",
                  "Advertising Expenditure by Type in {year}", Some(year)))

\* variant: no test of yearly_data.empty
YearlyBranch_NoEmptyTest(df, selected_year) ==
    IF Falsy(selected_year)
    THEN Div("Please select a year from the dropdown to see Yearly Statistics.", None)
    ELSE LET year == IntOf(selected_year)
             yearly_data == Filter(df, "Year", year)
         IN  YearlyCharts(df, yearly_data, year)

\* variant: no test of selected_year; int(None) fails, year stays None and
\* matches no row
YearlyBranch_NoYearTest(df, selected_year) ==
    IF Falsy(selected_year)
    THEN Div("No data available for year {year}.", None)
    ELSE LET year == IntOf(selected_year)
             yearly_data == Filter(df, "Year", year)
         IN  IF yearly_data = <<>>
             THEN Div("No data available for year {year}.", Some(year))
             ELSE YearlyCharts(df, yearly_data, year)

\* lines 129-143 and 169: the yearly branch
YearlyBranch(df, selected_year) ==
    IF Falsy(selected_year)
    THEN Div("Please select a year from the dropdown to see Yearly Statistics.", None)
    ELSE LET year == IntOf(selected_year)
             yearly_data == Filter(df, "Year", year)
         IN  IF yearly_data = <<>>
             THEN Div("No data available for year {year}.", Some(year))
             ELSE YearlyCharts(df, yearly_data, year)

\* variant: the recession branch also requires a year
update_output_container_NeedsYear(df, report_type, selected_year) ==
    IF report_type = Some("Recession Period Statistics") /\ ~Falsy(selected_year)
    THEN RecessionBranch(df)
    ELSE IF report_type = Some("Yearly Statistics")
         THEN YearlyBranch(df, selected_year)
         ELSE Div("Choose a report type to view charts.", None)

\* variant: the yearly branch is a plain else
update_output_container_ElseYearly(df, report_type, selected_year) ==
    IF report_type = Some("Recession Period Statistics")
    THEN RecessionBranch(df)
    ELSE YearlyBranch(df, selected_year)

\* lines 74-183; df is the module-level table data
update_output_container(df, report_type, selected_year) ==
    IF report_type = Some("Recession Period Statistics")
    THEN RecessionBranch(df)
    ELSE IF report_type = Some("Yearly Statistics")
         THEN YearlyBranch(df, selected_year)
         ELSE Div("Choose a report type to view charts.", None)

-----------------------------------------------------------------------------
(* The reactive layout: sessions, user events and callback dispatch.       *)

Sessions == DOMAIN dropdown_statistics

\* the years the modelled user picks from the 44 options of the dropdown
YearChoices == {1980, 1981, 1982}

StatisticsValues == {None} \cup {Some(o) : o \in dropdown_options}

YearValues == {None} \cup {Some(y) : y \in YearChoices}

InputCall(v) == [callback |-> "update_input_container", args |-> <<v>>]

OutputCall(v, y) == [callback |-> "update_output_container", args |-> <<v, y>>]

\* a page load: the layout's initial properties (lines 38-55) and the
\* initial invocation of both callbacks
Layout(S, D) ==
    /\ data \in D
    /\ dropdown_statistics = [s \in S |-> None]
    /\ select_year = [s \in S |-> None]
    /\ select_year_disabled = [s \in S |-> TRUE]
    /\ output_container = [s \in S |-> NoChildren]
    /\ queue = [s \in S |-> <<InputCall(None), OutputCall(None, None)>>]

Init == Layout({"s1"}, Datasets)

InitShared == Layout({"s1", "s2"}, SharedDatasets)

\* the user picks or clears the report type: both callbacks have it as Input
SelectStatistics(s, v) ==
    /\ v # dropdown_statistics[s]
    /\ Len(queue[s]) + 2 <= MaxQueue
    /\ dropdown_statistics' = [dropdown_statistics EXCEPT ![s] = v]
    /\ queue' = [queue EXCEPT ![s] =
                    @ \o <<InputCall(v), OutputCall(v, select_year[s])>>]
    /\ UNCHANGED <<data, select_year, select_year_disabled, output_container>>

\* variant: "select-year" is no Input of the plotting callback
SelectYear_NotAnInput(s, y) ==
    /\ ~select_year_disabled[s]
    /\ y # select_year[s]
    /\ Len(queue[s]) + 1 <= MaxQueue
    /\ select_year' = [select_year EXCEPT ![s] = y]
    /\ UNCHANGED <<data, dropdown_statistics, select_year_disabled, output_container,
                   queue>>

\* the user picks or clears the year; a disabled dropdown takes no input
SelectYear(s, y) ==
    /\ ~select_year_disabled[s]
    /\ y # select_year[s]
    /\ Len(queue[s]) + 1 <= MaxQueue
    /\ select_year' = [select_year EXCEPT ![s] = y]
    /\ queue' = [queue EXCEPT ![s] =
                    Append(@, OutputCall(dropdown_statistics[s], y))]
    /\ UNCHANGED <<data, dropdown_statistics, select_year_disabled, output_container>>

\* the oldest pending invocation is update_input_container: its return
\* value becomes the disabled property of "select-year"
RunInputCallback(s) ==
    /\ queue[s] # <<>>
    /\ Head(queue[s]).callback = "update_input_container"
    /\ select_year_disabled' = [select_year_disabled EXCEPT ![s] =
                                   update_input_container(Head(queue[s]).args[1])]
    /\ queue' = [queue EXCEPT ![s] = Tail(@)]
    /\ UNCHANGED <<data, dropdown_statistics, select_year, output_container>>

\* variant: children of the same kind as the displayed ones are not replaced
RunOutputCallback_KeepSameKind(s) ==
    /\ queue[s] # <<>>
    /\ Head(queue[s]).callback = "update_output_container"
    /\ LET new == update_output_container(data, Head(queue[s]).args[1],
                                          Head(queue[s]).args[2])
       IN  output_container' = [output_container EXCEPT ![s] =
                                   IF new.kind = @.kind THEN @ ELSE new]
    /\ queue' = [queue EXCEPT ![s] = Tail(@)]
    /\ UNCHANGED <<data, dropdown_statistics, select_year, select_year_disabled>>

\* variant: the recession branch filters the table in place
RunOutputCallback_FilterInPlace(s) ==
    /\ queue[s] # <<>>
    /\ Head(queue[s]).callback = "update_output_container"
    /\ output_container' = [output_container EXCEPT ![s] =
                               update_output_container(data, Head(queue[s]).args[1],
                                                       Head(queue[s]).args[2])]
    /\ data' = IF Head(queue[s]).args[1] = Some("Recession Period Statistics")
               THEN Filter(data, "Recession", 1)
               ELSE data
    /\ queue' = [queue EXCEPT ![s] = Tail(@)]
    /\ UNCHANGED <<dropdown_statistics, select_year, select_year_disabled>>

\* the oldest pending invocation is update_output_container: its return
\* value replaces the children of "output-container"
RunOutputCallback(s) ==
    /\ queue[s] # <<>>
    /\ Head(queue[s]).callback = "update_output_container"
    /\ output_container' = [output_container EXCEPT ![s] =
                               update_output_container(data, Head(queue[s]).args[1],
                                                       Head(queue[s]).args[2])]
    /\ queue' = [queue EXCEPT ![s] = Tail(@)]
    /\ UNCHANGED <<data, dropdown_statistics, select_year, select_year_disabled>>

Next ==
    \/ \E s \in Sessions, v \in StatisticsValues : SelectStatistics(s, v)
    \/ \E s \in Sessions, y \in YearValues : SelectYear(s, y)
    \/ \E s \in Sessions : RunInputCallback(s)
    \/ \E s \in Sessions : RunOutputCallback(s)

Spec == Init /\ [][Next]_vars

SpecShared == InitShared /\ [][Next]_vars

-----------------------------------------------------------------------------
(* Properties.                                                             *)

Yearly == Some("Yearly Statistics")

Recession == Some("Recession Period Statistics")

\* report types no dropdown option produces
OtherStatistics == {Some("Monthly Statistics"), Some("")}

\* every value the year dropdown can hold
YearArgs == {None} \cup {Some(y) : y \in year_list}

\* the years that have rows in df
YearsOf(df) == {df[i].Year : i \in DOMAIN df}

\* no invocation of either callback is pending for session s
Idle(s) == queue[s] = <<>>

PleaseSelect == Div("Please select a year from the dropdown to see Yearly Statistics.", None)

ChooseReport == Div("Choose a report type to view charts.", None)

NoData(y) == Div("No data available for year {year}.", Some(y))

\* C1: update_input_container returns FALSE exactly for "Yearly Statistics"
\* and TRUE for every other value (the other option, None, anything else);
\* once its invocations have run, the year dropdown is enabled exactly when
\* the selected report type is "Yearly Statistics".
C1_EnablementRule ==
    /\ \A v \in StatisticsValues \cup OtherStatistics :
           update_input_container(v) = (v # Yearly)
    /\ \A s \in Sessions :
           Idle(s) => select_year_disabled[s] = (dropdown_statistics[s] # Yearly)

C1_Witness ==
    \E s \in Sessions :
        /\ Idle(s)
        /\ dropdown_statistics[s] = Yearly
        /\ select_year_disabled[s] = FALSE

\* C2: with report type "Recession Period Statistics" the rule returns the
\* four-chart recession panel whatever the year (unset, present, absent) and
\* whatever the table (also one without Recession = 1 rows): the same panel
\* for every year, never a message.
C2_RecessionAlwaysPanel ==
    \A s \in Sessions :
        (Idle(s) /\ dropdown_statistics[s] = Recession) =>
            /\ output_container[s].kind = "charts"
            /\ Len(output_container[s].charts) = 2
            /\ \A i \in 1..2 : Len(output_container[s].charts[i]) = 2
            /\ \A y \in YearValues \cup {Some(2023)} :
                   update_output_container(data, Recession, y) = output_container[s]

C2_Witness ==
    \E s \in Sessions :
        /\ Idle(s)
        /\ dropdown_statistics[s] = Recession
        /\ select_year[s] = Some(1981)
        /\ data # <<>>
        /\ Filter(data, "Recession", 1) = <<>>
        /\ output_container[s].kind = "charts"
        /\ output_container[s].charts[1][1].table = <<>>

\* C3: with report type "Yearly Statistics" and a year of 1980..2023 that no
\* row of the table has, the rule returns the "no data" message carrying
\* exactly that year, and no charts.
C3_AbsentYearNoData ==
    \A s \in Sessions :
        (Idle(s) /\ dropdown_statistics[s] = Yearly) =>
            /\ \A y \in year_list \ YearsOf(data) :
                   /\ update_output_container(data, dropdown_statistics[s], Some(y))
                          = NoData(y)
                   /\ NoData(y).charts = <<>>
            /\ (select_year[s] # None /\ select_year[s][1] \notin YearsOf(data)) =>
                   /\ output_container[s].kind = "message"
                   /\ output_container[s].text = "No data available for year {year}."
                   /\ output_container[s].year = select_year[s]
                   /\ output_container[s].charts = <<>>

C3_Witness ==
    \E s \in Sessions :
        /\ Idle(s)
        /\ dropdown_statistics[s] = Yearly
        /\ select_year[s] = Some(1981)
        /\ data # <<>>
        /\ output_container[s] = NoData(1981)

\* C4: with report type "Yearly Statistics" and no year chosen the rule
\* returns the "please select a year" placeholder: no charts, neither the
\* "no data" message nor the generic placeholder.
C4_NoYearPlaceholder ==
    \A s \in Sessions :
        (Idle(s) /\ dropdown_statistics[s] = Yearly /\ select_year[s] = None) =>
            /\ output_container[s] = PleaseSelect
            /\ output_container[s].charts = <<>>
            /\ output_container[s] # ChooseReport
            /\ output_container[s].text # "No data available for year {year}."

C4_Witness ==
    \E s \in Sessions :
        /\ Idle(s)
        /\ dropdown_statistics[s] = Yearly
        /\ select_year[s] = None
        /\ data # <<>>
        /\ output_container[s] = PleaseSelect

\* C5: with a report type that is neither option (None, or any other value)
\* the rule returns the generic "choose a report type" placeholder for every
\* year, also one left over from an earlier Yearly selection; no charts.
C5_NoReportPlaceholder ==
    \A s \in Sessions :
        (Idle(s) /\ dropdown_statistics[s] \notin {Yearly, Recession}) =>
            /\ output_container[s] = ChooseReport
            /\ output_container[s].charts = <<>>
            /\ \A v \in {dropdown_statistics[s]} \cup OtherStatistics :
               \A y \in YearArgs :
                   update_output_container(data, v, y) = output_container[s]

C5_Witness ==
    \E s \in Sessions :
        /\ Idle(s)
        /\ dropdown_statistics[s] = None
        /\ select_year[s] = Some(1980)
        /\ Filter(data, "Year", 1980) # <<>>
        /\ output_container[s] = ChooseReport

\* the tables that differ from df in one Recession = 0 row (one removed, or
\* one appended), and df without all its Recession = 0 rows
SameRecessionRows(df) ==
    {Filter(df, "Recession", 1)}
    \cup {SubSeq(df, 1, i - 1) \o SubSeq(df, i + 1, Len(df)) :
              i \in {j \in DOMAIN df : df[j].Recession = 0}}
    \cup {Append(df, r) : r \in {q \in Rows : q.Recession = 0}}

\* C6: the recession panel depends only on the rows with Recession = 1: the
\* displayed panel is the panel of the table without its Recession = 0 rows,
\* and of every table that differs from it in one Recession = 0 row.
C6_RecessionRowsOnly ==
    \A s \in Sessions :
        (Idle(s) /\ dropdown_statistics[s] = Recession) =>
            \A d \in SameRecessionRows(data) :
                update_output_container(d, Recession, select_year[s])
                    = output_container[s]

C6_Witness ==
    \E s \in Sessions :
        /\ Idle(s)
        /\ dropdown_statistics[s] = Recession
        /\ Filter(data, "Recession", 1) # <<>>
        /\ Filter(data, "Recession", 0) # <<>>
        /\ output_container[s].kind = "charts"
        /\ output_container[s].charts[2][2].table # <<>>

\* C7: in the yearly panel of a year Y that has data, tables B, C, D are those
\* of the rows with Year = Y alone, while table A has one row per year of the
\* whole table (the mean sales of that year's rows) and is the same for
\* every Y that has data.
C7_YearlyScopes ==
    \A s \in Sessions :
        ( /\ Idle(s)
          /\ dropdown_statistics[s] = Yearly
          /\ select_year[s] # None
          /\ select_year[s][1] \in YearsOf(data) ) =>
            LET out == output_container[s]
                Y == select_year[s][1]
                own == update_output_container(Filter(data, "Year", Y), Yearly, Some(Y))
                A == out.charts[1][1]
            IN  /\ out.kind = "charts"
                /\ out.charts[1][2] = own.charts[1][2]
                /\ out.charts[2] = own.charts[2]
                /\ {r.Year : r \in {A.table[i] : i \in DOMAIN A.table}} = YearsOf(data)
                /\ \A i \in DOMAIN A.table :
                       A.table[i].Automobile_Sales
                           = mean(Filter(data, "Year", A.table[i].Year), "Automobile_Sales")
                /\ \A y \in YearsOf(data) :
                       update_output_container(data, Yearly, Some(y)).charts[1][1] = A

C7_Witness ==
    \E s \in Sessions :
        /\ Idle(s)
        /\ dropdown_statistics[s] = Yearly
        /\ select_year[s] = Some(1980)
        /\ YearsOf(data) = {1980, 1982}
        /\ output_container[s].kind = "charts"
        /\ Len(output_container[s].charts[1][1].table) = 2

\* C8: once the invocations for the latest event have run, the output region
\* is the rule applied to the current report type and year and the table;
\* nothing of an earlier selection remains.
C8_OutputIsFresh ==
    \A s \in Sessions :
        Idle(s) =>
            output_container[s]
                = update_output_container(data, dropdown_statistics[s], select_year[s])

C8_Witness ==
    \E s \in Sessions :
        /\ Idle(s)
        /\ dropdown_statistics[s] = Recession
        /\ select_year[s] = Some(1980)
        /\ Filter(data, "Year", 1980) # <<>>
        /\ output_container[s].kind = "charts"

C10_DataNeverMutated == [][data' = data]_vars

C10_Witness ==
    \E s \in Sessions, t \in Sessions :
        /\ s # t
        /\ Idle(s) /\ Idle(t)
        /\ dropdown_statistics[s] = Recession
        /\ dropdown_statistics[t] = Yearly
        /\ select_year[t] = Some(1980)
        /\ output_container[s].kind = "charts"
        /\ output_container[t].kind = "charts"
        /\ data \in SharedDatasets

====
